---- MODULE Spec2Model ----
(***************************************************************************)
(* A model of renovate's schema diffing and migration planning core:       *)
(* parsing SQL text into wrapped nodes (Index, TableRls), the differ of    *)
(* Index, the migration planners of IndexDiff and NodeDiff<TableRls>, the  *)
(* per-privilege planner of SinglePriv, and the `schema apply` command.    *)
(*                                                                         *)
(* SQL text is a sequence of tokens.  pg_query::parse turns it into a list *)
(* of statement nodes (records), deparse turns a node back into tokens.    *)
(***************************************************************************)
EXTENDS Integers, Sequences, FiniteSets, TLC

VARIABLES
    op,         \* the core operation applied last ("none" before any)
    input,      \* its arguments
    output,     \* its result
    pc,         \* SchemaApplyCommand::execute: position in the function
    env,        \* what the collaborators of execute will answer
    plan,       \* the plan generate_plan returned
    prompts,    \* the confirmation prompts shown so far, in order
    applied,    \* number of calls of db_repo.apply
    committed,  \* number of calls of git_commit
    ret         \* the value execute returned

coreVars == <<op, input, output>>
applyVars == <<pc, env, plan, prompts, applied, committed, ret>>
vars == <<op, input, output, pc, env, plan, prompts, applied, committed, ret>>

(***************************************************************************)
(* Bounds of the model.                                                    *)
(***************************************************************************)
MaxStmts == 2       \* statements in one SQL text
MaxPrivs == 2       \* privileges bundled in one GRANT statement
MaxPlan == 2        \* statements in the plan handed to `schema apply`

(***************************************************************************)
(* Results: Ok(v), Err(msg) (an anyhow::Error returned to the caller) and  *)
(* Panic (the thread aborts: an index out of bounds, a failed assert! or   *)
(* unwrap).                                                                *)
(***************************************************************************)
Ok(v) == [tag |-> "Ok", val |-> v]
Err(m) == [tag |-> "Err", msg |-> m]
Panic(m) == [tag |-> "Panic", msg |-> m]
None == [some |-> FALSE]
Some(v) == [some |-> TRUE, val |-> v]

(***************************************************************************)
(* The SQL texts of the model.                                             *)
(***************************************************************************)
IndexNames == {"foo", "qux"}
Schemas == {"public", "app"}
Tables == {"bar"}
Columns == {"baz", "ooo"}
Roles == {"alice"}
Idents == IndexNames \cup Schemas \cup Tables \cup Columns \cup Roles

\* [schema.]table as written in a statement; "" stands for no schema given
RelTexts == {<<t>> : t \in Tables} \cup {<<s, ".", t>> : s \in Schemas, t \in Tables}

IndexTexts ==
    {<<"CREATE", "INDEX", n, "ON">> \o r \o <<"(", c, ")">> :
        n \in IndexNames, r \in RelTexts, c \in Columns}

AlterTexts ==
    {<<"ALTER", "TABLE">> \o r \o a : r \in RelTexts,
        a \in {<<"ENABLE", "ROW", "LEVEL", "SECURITY">>,
               <<"DISABLE", "ROW", "LEVEL", "SECURITY">>,
               <<"OWNER", "TO", "alice">>}}

\* text that is no SQL statement
BadTexts == {<<"CREATE", "INDEX", "ON">>}

GrantTexts == {<<"GRANT", "SELECT", "ON", "bar", "TO", "alice">>}

\* the statements the texts given to the parsers are made of: some of each kind,
\* text that is no statement, and nothing
StmtTexts ==
    {<<"CREATE", "INDEX", "foo", "ON", "bar", "(", "baz", ")">>,
     <<"CREATE", "INDEX", "qux", "ON", "app", ".", "bar", "(", "ooo", ")">>,
     <<"ALTER", "TABLE", "bar", "ENABLE", "ROW", "LEVEL", "SECURITY">>,
     <<"ALTER", "TABLE", "app", ".", "bar", "ENABLE", "ROW", "LEVEL", "SECURITY">>,
     <<"ALTER", "TABLE", "bar", "DISABLE", "ROW", "LEVEL", "SECURITY">>,
     <<"ALTER", "TABLE", "bar", "OWNER", "TO", "alice">>}
        \cup GrantTexts \cup BadTexts \cup {<<>>}

RECURSIVE TextsOf(_)
TextsOf(n) ==
    IF n = 0 THEN {<<>>}
    ELSE LET shorter == TextsOf(n - 1)
         IN  shorter \cup StmtTexts
                \cup {t \o <<";">> \o s : t \in shorter \ {<<>>}, s \in StmtTexts}

\* every text of at most MaxStmts statements separated by ";"
Texts == TextsOf(MaxStmts)

(***************************************************************************)
(* pg_query::parse: the lexer's token classes and the grammar of the       *)
(* statements above.  The result is the list of statement nodes, or an     *)
(* error when some statement of the text is not SQL.                       *)
(***************************************************************************)
Keywords ==
    {"CREATE", "INDEX", "ON", "USING", "ALTER", "TABLE", "ENABLE", "DISABLE",
     "ROW", "LEVEL", "SECURITY", "OWNER", "TO", "GRANT", "REVOKE", "FROM"}
Punct == {";", ".", "(", ")", ","}
IsIdent(t) == t \notin Keywords \cup Punct

RangeVar(s, t) == [schemaname |-> s, relname |-> t]

\* [schema .] table at position i of toks; an absent schema is the empty string
ParseRangeVar(toks, i) ==
    IF i + 2 <= Len(toks) /\ IsIdent(toks[i]) /\ toks[i + 1] = "."
          /\ IsIdent(toks[i + 2])
    THEN [ok |-> TRUE, rv |-> RangeVar(toks[i], toks[i + 2]), next |-> i + 3]
    ELSE IF i <= Len(toks) /\ IsIdent(toks[i])
    THEN [ok |-> TRUE, rv |-> RangeVar("", toks[i]), next |-> i + 1]
    ELSE [ok |-> FALSE, rv |-> RangeVar("", ""), next |-> i]

SyntaxError == [kind |-> "SyntaxError"]

IndexStmt(name, rv, method, col) ==
    [kind |-> "IndexStmt", idxname |-> name, relation |-> Some(rv),
     access_method |-> method, index_params |-> <<col>>]

AlterTableStmt(rv, subtype, name) ==
    [kind |-> "AlterTableStmt", relation |-> Some(rv),
     cmds |-> <<[subtype |-> subtype, name |-> name]>>]

(***************************************************************************)
(* GRANT / REVOKE statements.                                              *)
(***************************************************************************)
GrantStmt(is_grant, rv, privs, role) ==
    [kind |-> "GrantStmt", is_grant |-> is_grant, objects |-> <<rv>>,
     privileges |-> privs, grantees |-> <<role>>]

AccessPriv(name, cols) == [priv_name |-> name, cols |-> cols]

\* the position of the first token t of toks at or after i; 0 when there is none
RECURSIVE Find(_, _, _)
Find(toks, t, i) ==
    IF i > Len(toks) THEN 0
    ELSE IF toks[i] = t THEN i
    ELSE Find(toks, t, i + 1)

\* ident {, ident}
RECURSIVE ParseIdentList(_)
IdentListFrom(first, r) == [ok |-> r.ok, list |-> <<first>> \o r.list]

ParseIdentList(toks) ==
    IF toks = <<>> \/ ~IsIdent(toks[1]) THEN [ok |-> FALSE, list |-> <<>>]
    ELSE IF Len(toks) = 1 THEN [ok |-> TRUE, list |-> <<toks[1]>>]
    ELSE IF toks[2] # "," THEN [ok |-> FALSE, list |-> <<>>]
    ELSE IdentListFrom(toks[1], ParseIdentList(SubSeq(toks, 3, Len(toks))))

\* privilege [( column {, column} )] {, privilege ...}
RECURSIVE ParsePrivList(_)
PrivListAfter(first, r) == [ok |-> r.ok, list |-> <<first>> \o r.list]

PrivListFrom(toks, cols, rest) ==
    IF ~cols.ok THEN [ok |-> FALSE, list |-> <<>>]
    ELSE IF rest = <<>> THEN [ok |-> TRUE, list |-> <<AccessPriv(toks[1], cols.list)>>]
    ELSE IF rest[1] # "," THEN [ok |-> FALSE, list |-> <<>>]
    ELSE PrivListAfter(AccessPriv(toks[1], cols.list), ParsePrivList(Tail(rest)))

PrivListCols(toks, hasCols, close) ==
    PrivListFrom(toks,
                 IF hasCols /\ close > 0 THEN ParseIdentList(SubSeq(toks, 3, close - 1))
                 ELSE [ok |-> ~hasCols, list |-> <<>>],
                 IF close > 0 THEN SubSeq(toks, close + 1, Len(toks)) ELSE <<>>)

ParsePrivList(toks) ==
    IF toks = <<>> \/ ~IsIdent(toks[1]) THEN [ok |-> FALSE, list |-> <<>>]
    ELSE IF Len(toks) >= 2 /\ toks[2] = "(" THEN PrivListCols(toks, TRUE, Find(toks, ")", 3))
    ELSE PrivListCols(toks, FALSE, 1)

\* {GRANT privileges ON [schema.]table TO role | REVOKE ... FROM role}
GrantTail(toks, privs, r, is_grant) ==
    IF privs.ok /\ r.ok /\ Len(toks) = r.next + 1
          /\ toks[r.next] = (IF is_grant THEN "TO" ELSE "FROM")
          /\ IsIdent(toks[r.next + 1])
    THEN GrantStmt(is_grant, r.rv, privs.list, toks[r.next + 1])
    ELSE SyntaxError

GrantOn(toks, on) ==
    GrantTail(toks,
              IF on > 0 THEN ParsePrivList(SubSeq(toks, 2, on - 1))
              ELSE [ok |-> FALSE, list |-> <<>>],
              ParseRangeVar(toks, on + 1), toks[1] = "GRANT")

ParseGrantStmt(toks) == GrantOn(toks, Find(toks, "ON", 2))

\* CREATE INDEX name ON [schema.]table [USING method] ( column )
IndexParams(toks, r, method, m) ==
    IF r.ok /\ Len(toks) = m + 2 /\ toks[m] = "(" /\ IsIdent(toks[m + 1])
          /\ toks[m + 2] = ")"
    THEN IndexStmt(toks[3], r.rv, method, toks[m + 1])
    ELSE SyntaxError

IndexUsing(toks, r, n) ==
    IF n + 1 <= Len(toks) /\ toks[n] = "USING" /\ IsIdent(toks[n + 1])
    THEN IndexParams(toks, r, toks[n + 1], n + 2)
    ELSE IndexParams(toks, r, "btree", n)

IndexRelation(toks, r) == IndexUsing(toks, r, r.next)

ParseIndexStmt(toks) == IndexRelation(toks, ParseRangeVar(toks, 5))

\* ALTER TABLE [schema.]table {ENABLE | DISABLE} ROW LEVEL SECURITY | OWNER TO role
AlterCmd(rv, rest) ==
    IF rest = <<"ENABLE", "ROW", "LEVEL", "SECURITY">>
    THEN AlterTableStmt(rv, "AtEnableRowSecurity", "")
    ELSE IF rest = <<"DISABLE", "ROW", "LEVEL", "SECURITY">>
    THEN AlterTableStmt(rv, "AtDisableRowSecurity", "")
    ELSE IF Len(rest) = 3 /\ rest[1] = "OWNER" /\ rest[2] = "TO" /\ IsIdent(rest[3])
    THEN AlterTableStmt(rv, "AtChangeOwner", rest[3])
    ELSE SyntaxError

AlterRelation(toks, r) ==
    IF r.ok THEN AlterCmd(r.rv, SubSeq(toks, r.next, Len(toks))) ELSE SyntaxError

ParseAlterTableStmt(toks) == AlterRelation(toks, ParseRangeVar(toks, 3))

ParseStmt(toks) ==
    IF Len(toks) >= 4 /\ toks[1] = "CREATE" /\ toks[2] = "INDEX" /\ IsIdent(toks[3])
          /\ toks[4] = "ON"
    THEN ParseIndexStmt(toks)
    ELSE IF Len(toks) >= 2 /\ toks[1] = "ALTER" /\ toks[2] = "TABLE"
    THEN ParseAlterTableStmt(toks)
    ELSE IF Len(toks) >= 1 /\ toks[1] \in {"GRANT", "REVOKE"}
    THEN ParseGrantStmt(toks)
    ELSE SyntaxError

\* the statements of a text: the token runs between ";", the empty ones dropped
RECURSIVE SplitStmts(_, _)
SplitStmts(toks, cur) ==
    IF toks = <<>> THEN (IF cur = <<>> THEN <<>> ELSE <<cur>>)
    ELSE IF Head(toks) = ";"
    THEN (IF cur = <<>> THEN <<>> ELSE <<cur>>) \o SplitStmts(Tail(toks), <<>>)
    ELSE SplitStmts(Tail(toks), Append(cur, Head(toks)))

ParsedStmts(stmts) ==
    IF \E i \in 1..Len(stmts) : stmts[i] = SyntaxError
    THEN Err("pg_query: syntax error")
    ELSE Ok([stmts |-> stmts])

ParseStmts(segs) == ParsedStmts([i \in 1..Len(segs) |-> ParseStmt(segs[i])])

pg_query_parse(s) == ParseStmts(SplitStmts(s, <<>>))

\* the nodes below a statement node
Children(stmt) ==
    IF stmt.kind = "GrantStmt"
    THEN [i \in 1..Len(stmt.objects) |-> [kind |-> "RangeVar", rv |-> stmt.objects[i]]]
    ELSE IF stmt.relation.some THEN <<[kind |-> "RangeVar", rv |-> stmt.relation.val]>>
    ELSE <<>>

\* ParseResult::nodes: every node of every statement, a statement before its
\* children, the statements in text order
RECURSIVE nodes(_)
nodes(stmts) ==
    IF stmts = <<>> THEN <<>>
    ELSE <<Head(stmts)>> \o Children(Head(stmts)) \o nodes(Tail(stmts))

(***************************************************************************)
(* deparse: a node rendered as SQL text.                                   *)
(***************************************************************************)
DeparseRangeVar(rv) ==
    IF rv.schemaname = "" THEN <<rv.relname>> ELSE <<rv.schemaname, ".", rv.relname>>

DeparseCmd(cmd) ==
    IF cmd.subtype = "AtEnableRowSecurity" THEN <<"ENABLE", "ROW", "LEVEL", "SECURITY">>
    ELSE IF cmd.subtype = "AtDisableRowSecurity"
    THEN <<"DISABLE", "ROW", "LEVEL", "SECURITY">>
    ELSE <<"OWNER", "TO", cmd.name>>

RECURSIVE CommaJoin(_)
CommaJoin(items) ==
    IF items = <<>> THEN <<>>
    ELSE IF Len(items) = 1 THEN items[1]
    ELSE items[1] \o <<",">> \o CommaJoin(Tail(items))

DeparseAccessPriv(a) ==
    <<a.priv_name>>
        \o (IF a.cols = <<>> THEN <<>>
            ELSE <<"(">> \o CommaJoin([i \in 1..Len(a.cols) |-> <<a.cols[i]>>]) \o <<")">>)

DeparseGrantStmt(node) ==
    <<IF node.is_grant THEN "GRANT" ELSE "REVOKE">>
        \o CommaJoin([i \in 1..Len(node.privileges) |->
                        DeparseAccessPriv(node.privileges[i])])
        \o <<"ON">> \o DeparseRangeVar(node.objects[1])
        \o <<IF node.is_grant THEN "TO" ELSE "FROM", node.grantees[1]>>

\* NodeEnum::deparse
Deparse(node) ==
    IF node.kind = "IndexStmt"
    THEN <<"CREATE", "INDEX", node.idxname, "ON">> \o DeparseRangeVar(node.relation.val)
            \o <<"USING", node.access_method, "(">> \o node.index_params \o <<")">>
    ELSE IF node.kind = "AlterTableStmt"
    THEN <<"ALTER", "TABLE">> \o DeparseRangeVar(node.relation.val)
            \o DeparseCmd(node.cmds[1])
    ELSE DeparseGrantStmt(node)

(***************************************************************************)
(* Identities.                                                             *)
(***************************************************************************)
\* From<&RangeVar> for SchemaId: the default schema is "public"
SchemaId_from(rv) ==
    [schema |-> IF rv.schemaname = "" THEN "public" ELSE rv.schemaname,
     name |-> rv.relname]

\* Display for SchemaId
SchemaId_to_string(id) == <<id.schema, ".", id.name>>

(***************************************************************************)
(* Index (parser/index.rs).                                                *)
(***************************************************************************)
get_id(stmt) ==
    [name |-> stmt.idxname, schema_id |-> SchemaId_from(stmt.relation.val)]

\* TryFrom<&IndexStmt> for Index; get_id asserts that the relation is there
Index_try_from(stmt) ==
    IF ~stmt.relation.some THEN Panic("assertion failed: stmt.relation.is_some()")
    ELSE Ok([id |-> get_id(stmt), node |-> stmt])

Index_first_node(s, ns) ==
    IF Len(ns) = 0 THEN Panic("index out of bounds")
    ELSE IF ns[1].kind = "IndexStmt" THEN Index_try_from(ns[1])
    ELSE Err("not an index")

Index_parsed(s, parsed) ==
    IF parsed.tag = "Err" THEN Err("Failed to parse")
    ELSE Index_first_node(s, nodes(parsed.val.stmts))

Index_from_str(s) == Index_parsed(s, pg_query_parse(s))

\* PartialEq for Index: the identity and the full node
Index_eq(a, b) == a.id = b.id /\ a.node = b.node

\* utils::create_diff: the textual diff of the two renderings
create_diff(old, new) == Ok([minus |-> Deparse(old), plus |-> Deparse(new)])

Index_delta(self, remote, diff) ==
    IF diff.tag = "Err" THEN diff
    ELSE Ok(Some([id |-> self.id, old |-> Some(self), new |-> Some(remote),
                  diff |-> diff.val]))

\* Index::diff comparing the identities and nothing else
DiffComparesIdOnly(self, remote) ==
    IF self.id # remote.id THEN Err("can't diff")
    ELSE Ok(None)

\* Index::diff without the check of the identities
DiffWithoutIdCheck(self, remote) ==
    IF ~Index_eq(self, remote)
    THEN Index_delta(self, remote, create_diff(self.node, remote.node))
    ELSE Ok(None)

Index_diff(self, remote) ==
    IF self.id # remote.id THEN Err("can't diff")
    ELSE IF ~Index_eq(self, remote)
    THEN Index_delta(self, remote, create_diff(self.node, remote.node))
    ELSE Ok(None)

\* IndexDiff::plan naming the new index in the DROP
PlanDropsNewName(d) ==
    (IF d.old.some /\ d.new.some THEN <<<<"DROP", "INDEX", d.new.val.id.name, ";">>>>
     ELSE IF d.old.some THEN <<<<"DROP", "INDEX", d.old.val.id.name, ";">>>>
     ELSE <<>>)
        \o (IF d.new.some THEN <<Append(Deparse(d.new.val.node), ";")>> ELSE <<>>)

IndexDiff_plan(d) ==
    (IF d.old.some THEN <<<<"DROP", "INDEX", d.old.val.id.name, ";">>>> ELSE <<>>)
        \o (IF d.new.some THEN <<Append(Deparse(d.new.val.node), ";")>> ELSE <<>>)

(***************************************************************************)
(* TableRls (parser/table/table_rls.rs).                                   *)
(***************************************************************************)
\* TryFrom<&AlterTableStmt> for AlterTable: the identity and the kind of change
AlterTable_try_from(stmt) ==
    LET t == stmt.cmds[1].subtype
    IN  Ok([id |-> SchemaId_from(stmt.relation.val),
            action |-> IF t = "AtEnableRowSecurity" THEN "Rls"
                       ELSE IF t = "AtChangeOwner" THEN "Owner"
                       ELSE "Unsupported",
            node |-> stmt])

TableRls_new(id, node) == [id |-> id, node |-> node]

\* TryFrom<AlterTable> for TableRls
TableRls_try_from(at) ==
    IF at.action = "Rls" THEN Ok(TableRls_new(at.id, at.node))
    ELSE Err("not an owner change")

TableRls_alter_table(at) ==
    IF at.tag = "Err" THEN at ELSE TableRls_try_from(at.val)

TableRls_first_node(s, ns) ==
    IF Len(ns) = 0 THEN Panic("index out of bounds")
    ELSE IF ns[1].kind = "AlterTableStmt"
    THEN TableRls_alter_table(AlterTable_try_from(ns[1]))
    ELSE Err("not a alter table RLS statement")

TableRls_parsed(s, parsed) ==
    IF parsed.tag = "Err" THEN parsed
    ELSE TableRls_first_node(s, nodes(parsed.val.stmts))

TableRls_from_str(s) == TableRls_parsed(s, pg_query_parse(s))

\* the results of a sequence of fallible steps, concatenated; the first error ends it
RECURSIVE Flatten(_)
Prepend(first, rest) == IF rest.tag # "Ok" THEN rest ELSE Ok(first \o rest.val)

Flatten(results) ==
    IF results = <<>> THEN Ok(<<>>)
    ELSE IF Head(results).tag # "Ok" THEN Head(results)
    ELSE Prepend(Head(results).val, Flatten(Tail(results)))

\* TableRls::revert yielding the ENABLE statement again
RevertToEnable(self) ==
    Ok(AlterTableStmt(RangeVar(self.id.schema, self.id.name), "AtEnableRowSecurity", ""))

\* NodeItem::revert: the statement is built as text and parsed
Revert_first_node(ns) ==
    IF Len(ns) = 0 THEN Panic("index out of bounds")
    ELSE IF ns[1].kind = "AlterTableStmt" THEN Ok(ns[1])
    ELSE Err("not a alter table RLS statement")

Revert_parsed(parsed) ==
    IF parsed.tag = "Err" THEN parsed ELSE Revert_first_node(nodes(parsed.val.stmts))

TableRls_revert(self) ==
    Revert_parsed(pg_query_parse(<<"ALTER", "TABLE">> \o SchemaId_to_string(self.id)
                                    \o <<"DISABLE", "ROW", "LEVEL", "SECURITY">>))

\* Result<NodeEnum>::deparse()?, as the one statement of a migration
Deparsed(node) == IF node.tag # "Ok" THEN node ELSE Ok(<<Deparse(node.val)>>)

TableRls_drop(d) ==
    IF d.old.some THEN Deparsed(TableRls_revert(d.old.val)) ELSE Ok(<<>>)

TableRls_create(d) ==
    IF d.new.some THEN Ok(<<Deparse(d.new.val.node)>>) ELSE Ok(<<>>)

\* alter() as the revert of old followed by the statement of new
AlterAsDropCreate(d) == Flatten(<<TableRls_drop(d), TableRls_create(d)>>)

TableRls_alter(d) == Ok(<<>>)

\* MigrationPlanner::plan, the composition of the sub-operations by the shape of
\* the delta: alter when both sides are there, else drop followed by create
TableRls_plan(d) ==
    IF d.old.some /\ d.new.some THEN TableRls_alter(d)
    ELSE Flatten(<<TableRls_drop(d), TableRls_create(d)>>)

(***************************************************************************)
(* SinglePriv (parser/privilege/single_priv.rs).                           *)
(***************************************************************************)
\* the order of String, which BTreeSet and BTreeMap iterate in
ColumnOrder == <<"baz", "ooo">>
PrivOrder == <<"INSERT", "SELECT", "UPDATE">>

\* the members of a set in the order of `order`
InOrder(set, order) == SelectSeq(order, LAMBDA x : x \in set)

SinglePriv(name, cols) == [name |-> name, cols |-> cols]

\* From<SinglePriv> for AccessPriv
AccessPriv_from(p) == AccessPriv(p.name, InOrder(p.cols, ColumnOrder))

\* From<AccessPriv> for SinglePriv
SinglePriv_from(a) == SinglePriv(a.priv_name, {a.cols[i] : i \in 1..Len(a.cols)})

\* NodeItem::inner of Privilege
Privilege_inner(item) ==
    IF item.node.kind = "GrantStmt" THEN Ok(item.node)
    ELSE Err("not a grant statement")

\* generate_change leaving is_grant as the base has it
ChangeKeepsFlag(self, stmt, is_grant) ==
    IF stmt.tag = "Err" THEN stmt
    ELSE Ok([stmt.val EXCEPT !.privileges = <<AccessPriv_from(self)>>])

change_stmt(self, stmt, is_grant) ==
    IF stmt.tag = "Err" THEN stmt
    ELSE Ok([stmt.val EXCEPT !.is_grant = is_grant,
                             !.privileges = <<AccessPriv_from(self)>>])

generate_change(self, item, is_grant) == change_stmt(self, Privilege_inner(item), is_grant)

\* drop() generating the change as a grant
DropAsGrant(self, item) == Deparsed(generate_change(self, item, TRUE))

SinglePriv_drop(self, item) == Deparsed(generate_change(self, item, FALSE))

SinglePriv_create(self, item) == Deparsed(generate_change(self, item, TRUE))

\* alter() with the create before the drop
AlterCreateFirst(self, item, remote) ==
    Flatten(<<SinglePriv_create(remote, item), SinglePriv_drop(self, item)>>)

\* drop's statements, then create's; an error of either is returned
SinglePriv_alter(self, item, remote) ==
    Flatten(<<SinglePriv_drop(self, item), SinglePriv_create(remote, item)>>)

(***************************************************************************)
(* Privilege: a GRANT statement and its privileges by name; its plan goes  *)
(* privilege by privilege and concatenates what each one yields.           *)
(***************************************************************************)
Privilege_from(stmt) ==
    [privs |-> {SinglePriv_from(stmt.privileges[i]) : i \in 1..Len(stmt.privileges)},
     node |-> stmt]

NamesOf(privs) == {p.name : p \in privs}
ByName(privs, n) == CHOOSE p \in privs : p.name = n

Privilege_delta_plan(old, new, removed, changed, added) ==
    Flatten([i \in 1..Len(removed) |-> SinglePriv_drop(ByName(old.privs, removed[i]), old)]
            \o [i \in 1..Len(changed) |->
                    SinglePriv_alter(ByName(old.privs, changed[i]), old,
                                     ByName(new.privs, changed[i]))]
            \o [i \in 1..Len(added) |-> SinglePriv_create(ByName(new.privs, added[i]), old)])

Privilege_plan(old, new) ==
    Privilege_delta_plan(old, new,
        InOrder(NamesOf(old.privs) \ NamesOf(new.privs), PrivOrder),
        InOrder({n \in NamesOf(old.privs) \cap NamesOf(new.privs) :
                    ByName(old.privs, n) # ByName(new.privs, n)}, PrivOrder),
        InOrder(NamesOf(new.privs) \ NamesOf(old.privs), PrivOrder))

(***************************************************************************)
(* The values the operations are applied to.                               *)
(***************************************************************************)
Indexes == {Index_from_str(s).val : s \in {t \in IndexTexts : Index_from_str(t).tag = "Ok"}}

OptionOf(S) == {None} \cup {Some(x) : x \in S}

\* every IndexDiff: what diff returns, and what a caller can build
IndexDiffs ==
    {[id |-> i.id, old |-> o, new |-> n, diff |-> [minus |-> <<>>, plus |-> <<>>]] :
        i \in Indexes, o \in OptionOf(Indexes), n \in OptionOf(Indexes)}

TableRlss ==
    {TableRls_from_str(s).val : s \in {t \in AlterTexts : TableRls_from_str(t).tag = "Ok"}}

TableRlsDiffs ==
    {[old |-> o, new |-> n, diff |-> <<>>] :
        o \in OptionOf(TableRlss), n \in OptionOf(TableRlss)}

SinglePrivs ==
    {SinglePriv(n, c) : n \in {PrivOrder[i] : i \in 1..Len(PrivOrder)},
                        c \in {{}, {"baz"}, {"baz", "ooo"}}}

\* the privileges of one GRANT statement: one entry for a name, at most MaxPrivs
PrivSets ==
    {S \in SUBSET SinglePrivs :
        /\ Cardinality(S) <= MaxPrivs
        /\ \A p, q \in S : p.name = q.name => p = q}

Privileges ==
    {Privilege_from(GrantStmt(g, RangeVar(s, "bar"),
                              [i \in 1..Len(InOrder(NamesOf(S), PrivOrder)) |->
                                  AccessPriv_from(ByName(S, InOrder(NamesOf(S), PrivOrder)[i]))],
                              "alice")) :
        g \in BOOLEAN, s \in {"", "app"}, S \in PrivSets}

(***************************************************************************)
(* The state before anything ran.                                          *)
(***************************************************************************)
Init ==
    /\ op = "none"
    /\ input = [none |-> TRUE]
    /\ output = [tag |-> "None"]
    /\ pc = "start"
    /\ env = [remote |-> FALSE, generated |-> "none", dirty |-> "unknown", continue |-> "unasked",
              update |-> "unasked", apply |-> "none", commit |-> "none"]
    /\ plan = <<>>
    /\ prompts = <<>>
    /\ applied = 0
    /\ committed = 0
    /\ ret = [tag |-> "Running"]

(***************************************************************************)
(* The operations of the core, each applied to any of its arguments.  The *)
(* operations are pure: a behaviour is one call, from the initial state.   *)
(***************************************************************************)
Call(name, args, result) ==
    /\ op' = name
    /\ input' = args
    /\ output' = result
    /\ UNCHANGED applyVars

IndexFromStr ==
    /\ op = "none"
    /\ \E s \in Texts : Call("Index::from_str", [s |-> s], Index_from_str(s))

TableRlsFromStr ==
    /\ op = "none"
    /\ \E s \in Texts : Call("TableRls::from_str", [s |-> s], TableRls_from_str(s))

IndexDiff ==
    /\ op = "none"
    /\ \E a, b \in Indexes :
        Call("Index::diff", [self |-> a, remote |-> b], Index_diff(a, b))

IndexPlan ==
    /\ op = "none"
    /\ \E d \in IndexDiffs : Call("IndexDiff::plan", [d |-> d], Ok(IndexDiff_plan(d)))

TableRlsRevert ==
    /\ op = "none"
    /\ \E t \in TableRlss : Call("TableRls::revert", [self |-> t], TableRls_revert(t))

TableRlsDrop ==
    /\ op = "none"
    /\ \E d \in TableRlsDiffs : Call("TableRls::drop", [d |-> d], TableRls_drop(d))

TableRlsCreate ==
    /\ op = "none"
    /\ \E d \in TableRlsDiffs : Call("TableRls::create", [d |-> d], TableRls_create(d))

TableRlsAlter ==
    /\ op = "none"
    /\ \E d \in TableRlsDiffs : Call("TableRls::alter", [d |-> d], TableRls_alter(d))

TableRlsPlan ==
    /\ op = "none"
    /\ \E d \in TableRlsDiffs : Call("TableRls::plan", [d |-> d], TableRls_plan(d))

SinglePrivDrop ==
    /\ op = "none"
    /\ \E p \in SinglePrivs, b \in Privileges :
        Call("SinglePriv::drop", [self |-> p, item |-> b, remote |-> p],
             [res |-> SinglePriv_drop(p, b), item |-> b])

SinglePrivCreate ==
    /\ op = "none"
    /\ \E p \in SinglePrivs, b \in Privileges :
        Call("SinglePriv::create", [self |-> p, item |-> b, remote |-> p],
             [res |-> SinglePriv_create(p, b), item |-> b])

SinglePrivAlter ==
    /\ op = "none"
    /\ \E p, q \in SinglePrivs, b \in Privileges :
        Call("SinglePriv::alter", [self |-> p, item |-> b, remote |-> q],
             [res |-> SinglePriv_alter(p, b, q), item |-> b])

\* the two sides of a changed GRANT statement: same grantee and target
PrivilegePlan ==
    /\ op = "none"
    /\ \E a, b \in Privileges :
        /\ a.node.objects = b.node.objects
        /\ a.node.grantees = b.node.grantees
        /\ Call("Privilege::plan", [old |-> a, new |-> b], Privilege_plan(a, b))

Next ==
    \/ IndexFromStr
    \/ TableRlsFromStr
    \/ IndexDiff
    \/ IndexPlan
    \/ TableRlsRevert
    \/ TableRlsDrop
    \/ TableRlsCreate
    \/ TableRlsAlter
    \/ TableRlsPlan
    \/ SinglePrivDrop
    \/ SinglePrivCreate
    \/ SinglePrivAlter
    \/ PrivilegePlan

Spec == Init /\ [][Next]_vars

(***************************************************************************)
(* SchemaApplyCommand::execute (commands/schema/apply.rs), one action for  *)
(* each call of a collaborator; the collaborator's answer is any it can    *)
(* give.                                                                   *)
(***************************************************************************)
PlanStatements == {<<"DROP", "INDEX", "foo", ";">>, <<"ALTER", "TABLE", "bar">>}

RECURSIVE PlansOf(_)
PlansOf(n) ==
    IF n = 0 THEN {<<>>}
    ELSE PlansOf(n - 1) \cup {Append(q, x) : q \in PlansOf(n - 1), x \in PlanStatements}

\* what generate_plan can return: an error, or a plan of at most MaxPlan statements
Plans == PlansOf(MaxPlan)

Return(r) ==
    /\ ret' = r
    /\ pc' = "done"

\* let plan = generate_plan(self.remote).await?; if plan.is_empty() { return Ok(()) }
GeneratePlan ==
    /\ pc = "start"
    /\ \E remote \in BOOLEAN :
          \/ /\ env' = [env EXCEPT !.remote = remote, !.generated = "error"]
             /\ Return(Err("generate_plan"))
             /\ UNCHANGED plan
          \/ \E q \in Plans :
                /\ env' = [env EXCEPT !.remote = remote, !.generated = "ok"]
                /\ plan' = q
                /\ IF q = <<>> THEN Return(Ok(<<>>))
                   ELSE pc' = "load_config" /\ UNCHANGED ret
    /\ UNCHANGED <<prompts, applied, committed>>
    /\ UNCHANGED coreVars

\* let config = load_config().await?; let db_repo = DatabaseRepo::new(&config);
LoadConfig ==
    /\ pc = "load_config"
    /\ \/ Return(Err("load_config"))
       \/ pc' = "git_dirty" /\ UNCHANGED ret
    /\ UNCHANGED <<env, plan, prompts, applied, committed>>
    /\ UNCHANGED coreVars

\* git_dirty()? && ...: the prompt is shown only when the tree is dirty
GitDirty ==
    /\ pc = "git_dirty"
    /\ \/ /\ Return(Err("git_dirty"))
          /\ env' = [env EXCEPT !.dirty = "error"]
       \/ /\ pc' = "confirm_dirty"
          /\ env' = [env EXCEPT !.dirty = "dirty"]
          /\ UNCHANGED ret
       \/ /\ pc' = "confirm_update"
          /\ env' = [env EXCEPT !.dirty = "clean"]
          /\ UNCHANGED ret
    /\ UNCHANGED <<plan, prompts, applied, committed>>
    /\ UNCHANGED coreVars

\* !confirm("Your repo is dirty. Do you want to continue?") => bail!
ConfirmDirty ==
    /\ pc = "confirm_dirty"
    /\ prompts' = Append(prompts, "continue")
    /\ \/ /\ env' = [env EXCEPT !.continue = "yes"]
          /\ pc' = "confirm_update"
          /\ UNCHANGED ret
       \/ /\ env' = [env EXCEPT !.continue = "no"]
          /\ Return(Err("Your repo is dirty"))
       \/ /\ env' = [env EXCEPT !.continue = "failed"]
          /\ Return(Panic("confirm UI should work"))
    /\ UNCHANGED <<plan, applied, committed>>
    /\ UNCHANGED coreVars

\* if confirm("Do you want to perform this update?") { ... } else { cancelled }
ConfirmUpdate ==
    /\ pc = "confirm_update"
    /\ prompts' = Append(prompts, "update")
    /\ \/ /\ env' = [env EXCEPT !.update = "yes"]
          /\ pc' = "apply"
          /\ UNCHANGED ret
       \/ /\ env' = [env EXCEPT !.update = "no"]
          /\ Return(Ok(<<>>))
       \/ /\ env' = [env EXCEPT !.update = "failed"]
          /\ Return(Panic("confirm UI should work"))
    /\ UNCHANGED <<plan, applied, committed>>
    /\ UNCHANGED coreVars

\* execute going on to the commit whatever apply returned
ApplyErrorIgnored ==
    /\ pc = "apply"
    /\ applied' = applied + 1
    /\ \E r \in {"ok", "error"} : env' = [env EXCEPT !.apply = r]
    /\ pc' = "commit"
    /\ UNCHANGED <<plan, prompts, committed, ret>>
    /\ UNCHANGED coreVars

\* db_repo.apply(plan, self.remote).await?;
Apply ==
    /\ pc = "apply"
    /\ applied' = applied + 1
    /\ \/ /\ env' = [env EXCEPT !.apply = "ok"]
          /\ pc' = "commit"
          /\ UNCHANGED ret
       \/ /\ env' = [env EXCEPT !.apply = "error"]
          /\ Return(Err("apply"))
    /\ UNCHANGED <<plan, prompts, committed>>
    /\ UNCHANGED coreVars

\* git_commit(...)?; println!(...); Ok(())
Commit ==
    /\ pc = "commit"
    /\ committed' = committed + 1
    /\ \/ /\ env' = [env EXCEPT !.commit = "ok"]
          /\ Return(Ok(<<>>))
       \/ /\ env' = [env EXCEPT !.commit = "error"]
          /\ Return(Err("git_commit"))
    /\ UNCHANGED <<plan, prompts, applied>>
    /\ UNCHANGED coreVars

NextApply ==
    \/ GeneratePlan
    \/ LoadConfig
    \/ GitDirty
    \/ ConfirmDirty
    \/ ConfirmUpdate
    \/ Apply
    \/ Commit

SpecApply == Init /\ [][NextApply]_vars

(***************************************************************************)
(* The properties.  A statement of a plan is read back with the parser to  *)
(* say what it is.                                                         *)
(***************************************************************************)
\* the node of a text holding one statement (SyntaxError when it holds none)
OnlyStmt(parsed) ==
    IF parsed.tag = "Ok" /\ Len(parsed.val.stmts) = 1 THEN parsed.val.stmts[1]
    ELSE SyntaxError

StmtOf(text) == OnlyStmt(pg_query_parse(text))

\* the statement without its closing ";"
Unterminated(st) == SubSeq(st, 1, Len(st) - 1)

IsDropStmt(st) ==
    \/ st[1] \in {"DROP", "REVOKE"}
    \/ st[1] = "ALTER" /\ StmtOf(st).kind = "AlterTableStmt"
          /\ StmtOf(st).cmds[1].subtype = "AtDisableRowSecurity"

IsCreateStmt(st) ==
    \/ st[1] \in {"CREATE", "GRANT"}
    \/ st[1] = "ALTER" /\ StmtOf(st).kind = "AlterTableStmt"
          /\ StmtOf(st).cmds[1].subtype = "AtEnableRowSecurity"

DropsBeforeCreates(stmts) ==
    \A i, j \in 1..Len(stmts) : IsCreateStmt(stmts[i]) /\ IsDropStmt(stmts[j]) => j < i

\* node grants (is_grant) or revokes exactly the privilege p, on the base's target
\* and to the base's grantee
NodeChangesOnly(node, is_grant, p, base) ==
    /\ node.kind = "GrantStmt"
    /\ node.is_grant = is_grant
    /\ Len(node.privileges) = 1
    /\ SinglePriv_from(node.privileges[1]) = p
    /\ node.objects = base.node.objects
    /\ node.grantees = base.node.grantees

ChangesOnly(st, is_grant, p, base) == NodeChangesOnly(StmtOf(st), is_grant, p, base)

\* C1: diff of two Index values of one identity is Ok(None) exactly when the two
\* are equal in identity and full node; otherwise it is Some(delta) with the
\* identity of self, old = Some(self) and new = Some(remote).
C1_DiffNoneIffEqual ==
    (op = "Index::diff" /\ input.self.id = input.remote.id) =>
        /\ output.tag = "Ok"
        /\ ~output.val.some <=> input.self.node = input.remote.node
        /\ output.val.some =>
              /\ output.val.val.id = input.self.id
              /\ output.val.val.old = Some(input.self)
              /\ output.val.val.new = Some(input.remote)

C1_Witness ==
    /\ op = "Index::diff"
    /\ input.self.id = input.remote.id
    /\ input.self.node # input.remote.node
    /\ output.tag = "Ok"
    /\ output.val.some

\* C2: diff of two Index values of different identities is an error, never a
\* delta and never "no change", also when the nodes agree in everything else.
C2_DiffRejectsOtherIdentity ==
    (op = "Index::diff" /\ input.self.id # input.remote.id) => output.tag = "Err"

C2_Witness ==
    /\ op = "Index::diff"
    /\ input.self.id.name # input.remote.id.name
    /\ input.self.node.relation = input.remote.node.relation
    /\ input.self.node.index_params = input.remote.node.index_params
    /\ output.tag = "Err"

\* C3: the plan of an IndexDiff is "DROP INDEX <name of old>;" when old is there,
\* followed by the rendered CREATE INDEX of new and ";" when new is there, and
\* nothing else.
C3_IndexPlanExact ==
    op = "IndexDiff::plan" =>
        /\ output.tag = "Ok"
        /\ Len(output.val) = (IF input.d.old.some THEN 1 ELSE 0)
                                + (IF input.d.new.some THEN 1 ELSE 0)
        /\ input.d.old.some =>
              output.val[1] = <<"DROP", "INDEX", input.d.old.val.id.name, ";">>
        /\ input.d.new.some =>
              /\ output.val[Len(output.val)][Len(output.val[Len(output.val)])] = ";"
              /\ output.val[Len(output.val)][1] = "CREATE"
              /\ StmtOf(Unterminated(output.val[Len(output.val)])) = input.d.new.val.node

C3_Witness ==
    /\ op = "IndexDiff::plan"
    /\ input.d.old.some
    /\ input.d.new.some
    /\ input.d.old.val.id.name # input.d.new.val.id.name
    /\ Len(output.val) = 2

\* C4: in the statements of IndexDiff::plan, of SinglePriv::alter and of the plan
\* of a NodeDiff<TableRls>, no create or grant statement comes before a drop,
\* revert or revoke statement.
C4_DropsBeforeCreates ==
    /\ op \in {"IndexDiff::plan", "TableRls::plan"} /\ output.tag = "Ok" =>
          DropsBeforeCreates(output.val)
    /\ op = "SinglePriv::alter" /\ output.res.tag = "Ok" =>
          DropsBeforeCreates(output.res.val)

C4_Witness ==
    /\ op = "SinglePriv::alter"
    /\ output.res.tag = "Ok"
    /\ Len(output.res.val) = 2
    /\ IsDropStmt(output.res.val[1])
    /\ IsCreateStmt(output.res.val[2])

C6_SinglePrivStatements ==
    /\ op = "SinglePriv::create" =>
          /\ output.res.tag = "Ok"
          /\ Len(output.res.val) = 1
          /\ ChangesOnly(output.res.val[1], TRUE, input.self, input.item)
          /\ output.item = input.item
    /\ op = "SinglePriv::drop" =>
          /\ output.res.tag = "Ok"
          /\ Len(output.res.val) = 1
          /\ ChangesOnly(output.res.val[1], FALSE, input.self, input.item)
          /\ output.item = input.item
    /\ op = "SinglePriv::alter" =>
          /\ output.res.tag = "Ok"
          /\ Len(output.res.val) = 2
          /\ ChangesOnly(output.res.val[1], FALSE, input.self, input.item)
          /\ ChangesOnly(output.res.val[2], TRUE, input.remote, input.item)
          /\ output.item = input.item

C6_Witness ==
    /\ op = "SinglePriv::create"
    /\ ~input.item.node.is_grant
    /\ input.self \notin input.item.privs
    /\ Cardinality(input.self.cols) = 2
    /\ Len(output.res.val) = 1

\* C7: when the privileges of a GRANT statement change from A to B, the plan holds
\* exactly one revoke for each privilege of A \ B, exactly one grant for each
\* privilege of B \ A, and nothing else (so nothing for A \cap B).
C7_PlanIsAdditive ==
    op = "Privilege::plan" =>
        /\ output.tag = "Ok"
        /\ \A p \in input.old.privs \ input.new.privs :
              Cardinality({i \in 1..Len(output.val) :
                  ChangesOnly(output.val[i], FALSE, p, input.old)}) = 1
        /\ \A p \in input.new.privs \ input.old.privs :
              Cardinality({i \in 1..Len(output.val) :
                  ChangesOnly(output.val[i], TRUE, p, input.old)}) = 1
        /\ Len(output.val) = Cardinality(input.old.privs \ input.new.privs)
                                + Cardinality(input.new.privs \ input.old.privs)

C7_Witness ==
    /\ op = "Privilege::plan"
    /\ input.old.privs = {SinglePriv("SELECT", {}), SinglePriv("INSERT", {})}
    /\ input.new.privs = {SinglePriv("SELECT", {}), SinglePriv("UPDATE", {})}
    /\ output.tag = "Ok"
    /\ Len(output.val) = 2

\* C8: parsing a text into an Index or a TableRls returns the node, or a parse
\* error when the text is not SQL, or a kind-mismatch error when it is SQL without
\* a first statement of the kind asked for; it never aborts.
C8_ParseReturns ==
    /\ op = "Index::from_str" =>
          IF pg_query_parse(input.s).tag = "Err" THEN output = Err("Failed to parse")
          ELSE IF /\ pg_query_parse(input.s).val.stmts # <<>>
                  /\ pg_query_parse(input.s).val.stmts[1].kind = "IndexStmt"
          THEN output.tag = "Ok"
          ELSE output = Err("not an index")
    /\ op = "TableRls::from_str" =>
          IF pg_query_parse(input.s).tag = "Err" THEN output = pg_query_parse(input.s)
          ELSE IF /\ pg_query_parse(input.s).val.stmts # <<>>
                  /\ pg_query_parse(input.s).val.stmts[1].kind = "AlterTableStmt"
                  /\ pg_query_parse(input.s).val.stmts[1].cmds[1].subtype
                        = "AtEnableRowSecurity"
          THEN output.tag = "Ok"
          ELSE output.tag = "Err"

\* C9: for a NodeDiff<TableRls> with both old and new, the planner emits nothing:
\* alter() is the empty list for every delta, and never an error.
C9_RlsAlterIsEmpty ==
    /\ op = "TableRls::alter" => output = Ok(<<>>)
    /\ (op = "TableRls::plan" /\ input.d.old.some /\ input.d.new.some) =>
          output = Ok(<<>>)

C9_Witness ==
    /\ op = "TableRls::alter"
    /\ input.d.old.some
    /\ input.d.new.some
    /\ input.d.old.val # input.d.new.val
    /\ output.tag = "Ok"

\* C10: in `schema apply`, (a) an empty plan returns success with no prompt, no
\* apply and no commit; (b) the applier runs only after the dirty check passed and
\* the user confirmed the update; (c) a dirty tree the user does not accept fails
\* the command with nothing applied or committed; (d) the commit happens only
\* after the apply succeeded; (e) apply and commit happen at most once.
C10_ApplyOrder ==
    /\ (env.generated = "ok" /\ plan = <<>>) =>
          /\ pc = "done"
          /\ ret = Ok(<<>>)
          /\ prompts = <<>>
          /\ applied = 0
          /\ committed = 0
    /\ applied > 0 =>
          /\ env.dirty = "clean" \/ (env.dirty = "dirty" /\ env.continue = "yes")
          /\ env.update = "yes"
          /\ plan # <<>>
    /\ (env.dirty = "dirty" /\ env.continue = "no") =>
          /\ pc = "done"
          /\ ret.tag = "Err"
          /\ applied = 0
          /\ committed = 0
    /\ committed > 0 => (applied = 1 /\ env.apply = "ok")
    /\ applied <= 1
    /\ committed <= 1

C10_Witness ==
    /\ pc = "done"
    /\ env.dirty = "dirty"
    /\ env.continue = "yes"
    /\ applied = 1
    /\ committed = 1
    /\ ret = Ok(<<>>)

====
